---- MODULE Spec2Model ----
(***************************************************************************)
(* Model of the waste-classification backend: the model artifact loader    *)
(* and validator (app/services/model_service.py), the prediction service   *)
(* (app/services/prediction_service.py), the predict endpoint              *)
(* (app/api/predict.py) and the startup hook (app/main.py), under Spec;    *)
(* the feature extractors (app/services/image_service.py and               *)
(* app/services/v2/image_preprocessor.py), under ExtractSpec; the response *)
(* formatters, under FormatSpec; the accounts (app/auth.py and              *)
(* app/api/users.py), under AuthSpec; the request log of app/main.py,      *)
(* under LogSpec.                                                          *)
(***************************************************************************)
EXTENDS Integers, Sequences, FiniteSets, TLC

VARIABLES
    model_service,       \* _model_service: <<>> (None) or <<ModelService>>
    prediction_service,  \* _prediction_service: <<>> (None) or <<PredictionService>>
    image_preprocessor,  \* _image_preprocessor singleton: FALSE (None) or TRUE (created)
    last,                \* history: the last operation, what it ran and how it ended
    supabase,            \* the database behind the Supabase client: its users table
    registering,         \* register requests between their SELECT and their INSERT
    RECENT_REQUESTS,     \* main.RECENT_REQUESTS, newest entry first
    RECENT_EVENTS        \* main.RECENT_EVENTS, newest entry first

vars == <<model_service, prediction_service, image_preprocessor, last,
          supabase, registering, RECENT_REQUESTS, RECENT_EVENTS>>

\* A specification that leaves the accounts or the request log out keeps
\* them empty.
NoAccounts == supabase = <<>> /\ registering = <<>>
NoRequestLog == RECENT_REQUESTS = <<>> /\ RECENT_EVENTS = <<>>

(***************************************************************************)
(* Model artifacts.  A deserialised object is described by what the code   *)
(* inspects: its Python type, its keys, and the attributes of its parts.   *)
(***************************************************************************)

required_keys == {"model", "scaler", "label_encoder", "waste_map"}

\* A complete, well-formed bundle.
GoodBundle ==
    [ kind              |-> "dict",
      keys              |-> required_keys,
      has_predict       |-> TRUE,
      has_predict_proba |-> TRUE,
      has_transform     |-> TRUE,
      has_classes       |-> TRUE,
      classes           |-> <<"botol_plastik", "daun">>,
      waste_map_is_dict |-> TRUE,
      waste_map         |-> [c \in {"daun", "botol_plastik"} |->
                               IF c = "daun" THEN "ORGANIK" ELSE "ANORGANIK"] ]

\* A second complete bundle: three classes, one of them absent from the map.
GoodBundle3 ==
    [GoodBundle EXCEPT
        !.classes   = <<"baterai", "botol_plastik", "daun">>,
        !.waste_map = [c \in {"baterai", "daun"} |->
                         IF c = "daun" THEN "ORGANIK" ELSE "B3"]]

\* A third complete bundle: its map gives a class a category that is none of
\* ORGANIK, ANORGANIK, B3 and unknown.
GoodBundleResidu ==
    [GoodBundle EXCEPT
        !.waste_map = [c \in {"daun", "botol_plastik"} |->
                         IF c = "daun" THEN "ORGANIK" ELSE "Residu"]]

\* pickle.loads / joblib.load returned None.
NoneObject ==
    [GoodBundle EXCEPT !.kind = "none", !.keys = {}, !.has_predict = FALSE,
        !.has_predict_proba = FALSE, !.has_transform = FALSE, !.has_classes = FALSE,
        !.classes = <<>>, !.waste_map_is_dict = FALSE, !.waste_map = <<>>]

\* An empty dict {}.
EmptyDict == [NoneObject EXCEPT !.kind = "emptydict"]

\* A truthy object that is no dict (a bare estimator, a list, ...).
NonDict == [NoneObject EXCEPT !.kind = "nondict"]

\* A dict lacking one required key; the part behind the key is absent.
MissingKey(k) ==
    [GoodBundle EXCEPT
        !.keys              = required_keys \ {k},
        !.has_predict       = IF k = "model" THEN FALSE ELSE @,
        !.has_predict_proba = IF k = "model" THEN FALSE ELSE @,
        !.has_transform     = IF k = "scaler" THEN FALSE ELSE @,
        !.has_classes       = IF k = "label_encoder" THEN FALSE ELSE @,
        !.classes           = IF k = "label_encoder" THEN <<>> ELSE @,
        !.waste_map_is_dict = IF k = "waste_map" THEN FALSE ELSE @,
        !.waste_map         = IF k = "waste_map" THEN <<>> ELSE @]

NoPredict      == [GoodBundle EXCEPT !.has_predict = FALSE, !.has_predict_proba = FALSE]
NoPredictProba == [GoodBundle EXCEPT !.has_predict_proba = FALSE]
NoTransform    == [GoodBundle EXCEPT !.has_transform = FALSE]
NoClasses      == [GoodBundle EXCEPT !.has_classes = FALSE, !.classes = <<>>]
EmptyClasses   == [GoodBundle EXCEPT !.classes = <<>>]
WasteMapList   == [GoodBundle EXCEPT !.waste_map_is_dict = FALSE, !.waste_map = <<>>]

\* Everything a source may deserialise to.
Bundles ==
    {GoodBundle, GoodBundle3, GoodBundleResidu, NoneObject, EmptyDict, NonDict,
     NoPredict, NoPredictProba, NoTransform, NoClasses, EmptyClasses, WasteMapList}
    \cup {MissingKey(k) : k \in required_keys}

\* A source either raises `err` or deserialises to `obj`.
Loaded(b) == [err |-> "none", obj |-> b]
Raises(e) == [err |-> e, obj |-> NoneObject]

\* What requests.get + pickle.loads on the remote URL can end in.
RemoteOutcomes ==
    {Raises("RequestException"), Raises("UnpicklingError")} \cup {Loaded(b) : b \in Bundles}

\* What joblib.load on the local file can end in.
LocalOutcomes ==
    {Raises("FileNotFoundError")}
    \cup {Loaded(b) : b \in {GoodBundle, GoodBundle3, GoodBundleResidu, NonDict,
                              NoPredictProba, EmptyClasses, MissingKey("scaler")}}

(***************************************************************************)
(* ModelService                                                            *)
(***************************************************************************)

\* ModelService.__init__
NewModelService(path, url) ==
    [ model_path   |-> path,
      model_url    |-> url,
      model        |-> NoneObject,
      model_source |-> "None",
      is_validated |-> FALSE ]

\* `not self.model`
Falsy(m) == m.kind \in {"none", "emptydict"}

missing_keys(m) == required_keys \ m.keys

\* Mutant: the waste_map type check is left out.
ValidationFailure_without_waste_map_check(m) ==
    IF Falsy(m) THEN "Model is not loaded"
    ELSE IF m.kind # "dict" THEN "Model must be a dict"
    ELSE IF missing_keys(m) # {} THEN "Model is missing required components"
    ELSE IF ~m.has_predict THEN "XGBoost model is invalid"
    ELSE IF ~m.has_transform THEN "Scaler model is invalid"
    ELSE IF ~m.has_classes THEN "Label encoder is invalid"
    ELSE "ok"

\* The first check of validate_model that `m` fails, or "ok".
ValidationFailure(m) ==
    IF Falsy(m) THEN "Model is not loaded"
    ELSE IF m.kind # "dict" THEN "Model must be a dict"
    ELSE IF missing_keys(m) # {} THEN "Model is missing required components"
    ELSE IF ~m.has_predict THEN "XGBoost model is invalid"
    ELSE IF ~m.has_transform THEN "Scaler model is invalid"
    ELSE IF ~m.has_classes THEN "Label encoder is invalid"
    ELSE IF ~m.waste_map_is_dict THEN "Waste map must be a dictionary"
    ELSE "ok"

\* Mutant: the except clause does not reset is_validated.
validate_model_sticky(ms) ==
    LET f == ValidationFailure(ms.model) IN
    [ ms     |-> [ms EXCEPT !.is_validated = (@ \/ f = "ok")],
      raised |-> f # "ok",
      error  |-> f ]

\* ModelService.validate_model: the service afterwards and whether it raised.
validate_model(ms) ==
    LET f == ValidationFailure(ms.model) IN
    [ ms     |-> [ms EXCEPT !.is_validated = (f = "ok")],
      raised |-> f # "ok",
      error  |-> f ]

\* Mutant: is_loaded looks at the bundle alone.
is_loaded_without_validation(ms) == ms.model.kind # "none"

\* ModelService.is_loaded
is_loaded(ms) == ms.model.kind # "none" /\ ms.is_validated

\* Mutant: both loaders record 'supabase' as the source.
load_model_from_one_source(ms, source, o) ==
    IF o.err # "none"
    THEN [ms |-> ms, raised |-> TRUE, model |-> NoneObject]
    ELSE [ms |-> [ms EXCEPT !.model_source = "supabase"], raised |-> FALSE, model |-> o.obj]

\* ModelService.load_model_from_supabase / load_model_from_local: the source
\* is recorded only when the object was fetched and deserialised.
load_model_from(ms, source, o) ==
    IF o.err # "none"
    THEN [ms |-> ms, raised |-> TRUE, model |-> NoneObject]
    ELSE [ms |-> [ms EXCEPT !.model_source = source], raised |-> FALSE, model |-> o.obj]

\* One `try` block of load_model: fetch, assign self.model, validate.
LoadAttempt(ms, source, o) ==
    LET ld == load_model_from(ms, source, o) IN
    IF ld.raised
    THEN [ ms |-> ms, ok |-> FALSE,
           step |-> [source |-> source, outcome |-> o.err, obj |-> NoneObject] ]
    ELSE LET v == validate_model([ld.ms EXCEPT !.model = ld.model]) IN
         [ ms |-> v.ms, ok |-> ~v.raised,
           step |-> [source |-> source, outcome |-> v.error, obj |-> o.obj] ]

\* Mutant: the failure of the local attempt is logged and not re-raised.
load_model_swallowing(ms, r, l) ==
    LET first == LoadAttempt(ms, "supabase", r)
        ms1   == IF ms.model_url THEN first.ms ELSE ms
        t1    == IF ms.model_url THEN <<first.step>> ELSE <<>>
        second == LoadAttempt(ms1, "local", l)
    IN  IF ms.model_url /\ first.ok
        THEN [ms |-> first.ms, raised |-> FALSE, tried |-> t1]
        ELSE IF ms.model_path
        THEN [ms |-> second.ms, raised |-> FALSE, tried |-> Append(t1, second.step)]
        ELSE [ms |-> ms1, raised |-> TRUE, tried |-> t1]

\* ModelService.load_model with the remote source ending in r and the local
\* one in l: the service afterwards, whether it raised, and the attempts made.
load_model(ms, r, l) ==
    LET first == LoadAttempt(ms, "supabase", r)
        ms1   == IF ms.model_url THEN first.ms ELSE ms
        t1    == IF ms.model_url THEN <<first.step>> ELSE <<>>
        second == LoadAttempt(ms1, "local", l)
    IN  IF ms.model_url /\ first.ok
        THEN [ms |-> first.ms, raised |-> FALSE, tried |-> t1]
        ELSE IF ms.model_path
        THEN [ms |-> second.ms, raised |-> ~second.ok, tried |-> Append(t1, second.step)]
        ELSE [ms |-> ms1, raised |-> TRUE, tried |-> t1]

(***************************************************************************)
(* PredictionService                                                       *)
(***************************************************************************)

\* Probabilities are multiples of 1/ProbSteps.
ProbSteps == 2

\* Python str.upper on the category strings of the model.
Upper(s) ==
    CASE s = "ORGANIK"   -> "ORGANIK"
      [] s = "ANORGANIK" -> "ANORGANIK"
      [] s = "B3"        -> "B3"
      [] s = "Unknown"   -> "UNKNOWN"
      [] s = "organik"   -> "ORGANIK"
      [] s = "Residu"    -> "RESIDU"
      [] OTHER           -> s

\* Python str.title on the category strings, and replace('_', ' ').title()
\* on the class names.
Title(s) ==
    CASE s = "ORGANIK"       -> "Organik"
      [] s = "ANORGANIK"     -> "Anorganik"
      [] s = "B3"            -> "B3"
      [] s = "Unknown"       -> "Unknown"
      [] s = "organik"       -> "Organik"
      [] s = "Residu"        -> "Residu"
      [] s = "daun"          -> "Daun"
      [] s = "botol_plastik" -> "Botol Plastik"
      [] s = "baterai"       -> "Baterai"
      [] OTHER               -> s

\* PredictionService.__init__: model.get needs a dict, and the constructor
\* reads label_encoder.classes_ for its log line.
CanConstruct(model) == model.kind = "dict" /\ model.has_classes

NewPredictionService(model) == [model_dict |-> model]

\* self.waste_map = model.get('waste_map', {})
waste_map_of(ps) ==
    IF "waste_map" \in ps.model_dict.keys
    THEN [is_dict |-> ps.model_dict.waste_map_is_dict, map |-> ps.model_dict.waste_map]
    ELSE [is_dict |-> TRUE, map |-> <<>>]

classes_of(ps) == ps.model_dict.classes

\* Number of columns predict_proba returns: the classes the classifier was
\* trained on.
n_outputs(ps) == IF Len(classes_of(ps)) = 0 THEN 2 ELSE Len(classes_of(ps))

SeqMax(p) == CHOOSE m \in {p[i] : i \in DOMAIN p} : \A i \in DOMAIN p : p[i] <= m

\* np.argmax: the first index (0-based) of the largest entry.
ArgMax(p) == (CHOOSE i \in DOMAIN p : p[i] = SeqMax(p) /\ \A j \in 1..(i-1) : p[j] < p[i]) - 1

SeqSum(p) == IF Len(p) = 0 THEN 0 ELSE
    LET S[i \in 0..Len(p)] == IF i = 0 THEN 0 ELSE S[i-1] + p[i] IN S[Len(p)]

\* Outputs predict_proba can give for n classes (numerators over ProbSteps).
ProbVectors(n) == {p \in [1..n -> 0..ProbSteps] : SeqSum(p) = ProbSteps}

IntPred(i) == [type |-> "int", i |-> i, s |-> ""]
StrPred(s) == [type |-> "str", i |-> 0, s |-> s]

\* Values prediction[0] can take: a class index, in range or not, or a label.
RawPredictions(n) == {IntPred(i) : i \in -1..n} \cup {StrPred("daun"), StrPred("kaca")}

\* classes.index(name), 0-based; -1 when absent.
IndexOf(classes, name) ==
    IF \E i \in DOMAIN classes : classes[i] = name
    THEN (CHOOSE i \in DOMAIN classes : classes[i] = name) - 1
    ELSE -1

\* Lines 227-240 of predict: the index the raw prediction is decoded to.
\* LabelEncoder.transform raises ValueError on an unseen label, and the
\* handler of that ValueError falls back to the most probable class.
pred_idx(classes, raw_pred, probabilities) ==
    IF raw_pred.type = "int" THEN raw_pred.i
    ELSE IF IndexOf(classes, raw_pred.s) >= 0 THEN IndexOf(classes, raw_pred.s)
    ELSE ArgMax(probabilities)

\* Mutant: the lookup defaults to the organic category.
resolve_category_defaulting_to_organic(wm, waste_class) ==
    LET category == IF waste_class \in DOMAIN wm THEN wm[waste_class] ELSE "ORGANIK"
    IN  IF Upper(category) \in {"B3", "UNKNOWN"} THEN "ANORGANIK" ELSE category

\* Lines 246-253 of predict: waste_map.get(waste_class, "ANORGANIK"), then
\* the remap of B3 and unknown.
resolve_category(wm, waste_class) ==
    LET category == IF waste_class \in DOMAIN wm THEN wm[waste_class] ELSE "ANORGANIK"
    IN  IF Upper(category) \in {"B3", "UNKNOWN"} THEN "ANORGANIK" ELSE category

NoResult ==
    [waste_class |-> "", waste_type |-> "", category |-> "", confidence |-> -1,
     probabilities |-> <<>>]

PredictRaise(kind, steps) ==
    [raised |-> kind, steps |-> steps, fallbacks |-> {}, result |-> NoResult]

\* Mutant: the capability check is skipped.
has_predict_proba_unchecked(m) == TRUE

\* Lines 207-211 of predict: hasattr(self.xgb_model, 'predict_proba').
has_predict_proba(m) == m.has_predict_proba

\* The defaults a successful predict substituted for a failed lookup: the
\* most probable index for a label the encoder does not know (line 240), the
\* category for a class the waste map does not hold (line 247).
fallbacks_taken(cls, wm, raw_pred, idx) ==
    (IF raw_pred.type = "str" /\ IndexOf(cls, raw_pred.s) < 0 THEN {"argmax_index"} ELSE {})
    \cup (IF cls[idx + 1] \notin DOMAIN wm THEN {"category"} ELSE {})

\* Mutant: the percentage is scaled twice.
confidence_scaled_twice(probabilities) == SeqMax(probabilities) * 100 * 100

\* Line 217 of predict: float(np.max(probabilities) * 100), as a numerator
\* over ProbSteps.
confidence_of(probabilities) == SeqMax(probabilities) * 100

\* Mutant: a raw prediction that is a string is returned as the class name
\* without going through the label encoder.
predict_returning_raw_label(ps, sc, cp, pp) ==
    LET m   == ps.model_dict
        wm  == waste_map_of(ps)
        cls == classes_of(ps)
        s1  == <<"scale">>
        s2  == <<"scale", "classify">>
        s3  == <<"scale", "classify", "check_predict_proba">>
        s4  == <<"scale", "classify", "check_predict_proba", "predict_proba">>
        s5  == Append(s4, "decode_label")
        s6  == Append(s5, "map_category")
        idx == pred_idx(cls, cp.raw, pp.p)
        waste_class == IF cp.raw.type = "str" THEN cp.raw.s ELSE cls[idx + 1]
    IN  IF ~m.has_transform THEN PredictRaise("Exception", s1)
        ELSE IF sc # "ok" THEN PredictRaise(sc, s1)
        ELSE IF ~m.has_predict THEN PredictRaise("Exception", s2)
        ELSE IF cp.err # "ok" THEN PredictRaise(cp.err, s2)
        ELSE IF ~has_predict_proba(m) THEN PredictRaise("ValueError", s3)
        ELSE IF pp.err # "ok" THEN PredictRaise(pp.err, s4)
        ELSE IF ~wm.is_dict /\ Len(cls) > 0 THEN PredictRaise("Exception", s4)
        ELSE IF idx < 0 \/ idx >= Len(cls) THEN PredictRaise("ValueError", s5)
        ELSE IF ~wm.is_dict THEN PredictRaise("Exception", s6)
        ELSE [ raised    |-> "none",
               steps     |-> s6,
               fallbacks |-> fallbacks_taken(cls, wm.map, cp.raw, idx),
               result    |-> [ waste_class   |-> waste_class,
                               waste_type    |-> Title(waste_class),
                               category      |-> resolve_category(wm.map, waste_class),
                               confidence    |-> confidence_of(pp.p),
                               probabilities |-> pp.p ] ]

\* PredictionService.predict with the scaler ending in sc, the classifier's
\* predict in cp and predict_proba in pp: the exception kind raised ("none",
\* "ValueError", "Exception"), the stages run and the result.  The
\* confidence is max(probabilities) * 100, kept as a numerator over ProbSteps.
predict(ps, sc, cp, pp) ==
    LET m   == ps.model_dict
        wm  == waste_map_of(ps)
        cls == classes_of(ps)
        s1  == <<"scale">>
        s2  == <<"scale", "classify">>
        s3  == <<"scale", "classify", "check_predict_proba">>
        s4  == <<"scale", "classify", "check_predict_proba", "predict_proba">>
        s5  == Append(s4, "decode_label")
        s6  == Append(s5, "map_category")
        idx == pred_idx(cls, cp.raw, pp.p)
    IN  IF ~m.has_transform THEN PredictRaise("Exception", s1)
        ELSE IF sc # "ok" THEN PredictRaise(sc, s1)
        ELSE IF ~m.has_predict THEN PredictRaise("Exception", s2)
        ELSE IF cp.err # "ok" THEN PredictRaise(cp.err, s2)
        ELSE IF ~has_predict_proba(m) THEN PredictRaise("ValueError", s3)
        ELSE IF pp.err # "ok" THEN PredictRaise(pp.err, s4)
        ELSE IF ~wm.is_dict /\ Len(cls) > 0 THEN PredictRaise("Exception", s4)
        ELSE IF idx < 0 \/ idx >= Len(cls) THEN PredictRaise("ValueError", s5)
        ELSE IF ~wm.is_dict THEN PredictRaise("Exception", s6)
        ELSE [ raised    |-> "none",
               steps     |-> s6,
               fallbacks |-> fallbacks_taken(cls, wm.map, cp.raw, idx),
               result    |-> [ waste_class   |-> cls[idx + 1],
                               waste_type    |-> Title(cls[idx + 1]),
                               category      |-> resolve_category(wm.map, cls[idx + 1]),
                               confidence    |-> confidence_of(pp.p),
                               probabilities |-> pp.p ] ]

StageOutcomes == {"ok", "ValueError", "Exception"}

ClassifierOutcomes(n) ==
    {[err |-> e, raw |-> IntPred(0)] : e \in {"ValueError", "Exception"}}
    \cup {[err |-> "ok", raw |-> r] : r \in RawPredictions(n)}

\* Placeholders for a stage that an earlier failure kept from running.
NotCalled == [err |-> "Exception", raw |-> IntPred(0)]
NoProba == [err |-> "Exception", p |-> <<>>]

ProbaOutcomes(n) ==
    {[err |-> "Exception", p |-> <<>>]} \cup {[err |-> "ok", p |-> p] : p \in ProbVectors(n)}

(***************************************************************************)
(* The predict endpoint                                                    *)
(***************************************************************************)

MAX_FILE_SIZE == 10485760
MIN_IMAGE_SIZE == 16
MAX_IMAGE_SIZE == 4096
EXPECTED_FEATURE_SHAPE == <<1, 38>>
EXPECTED_DTYPE == "float32"

allowed_types ==
    {"image/jpeg", "image/png", "image/bmp", "image/webp", "application/octet-stream"}

\* file.content_type values tried: absent (""), refused, and accepted.
ContentTypes == {"", "text/plain", "image/png"}

\* await file.read(): an I/O error (-1) or the number of bytes read.
ReadOutcomes == {-1, 0, MAX_FILE_SIZE, MAX_FILE_SIZE + 1}

\* What Image.open makes of the payload.  Image.open only identifies the
\* format and reads the header: `opens` says it did, `size` is image.size as
\* the header gives it, and `loads` says whether the pixel data decodes when
\* np.array(image) asks for it in _load_image_as_array.
Picture(width, height) == [opens |-> TRUE, size |-> <<width, height>>, loads |-> TRUE]
NotAnImage == [opens |-> FALSE, size |-> <<0, 0>>, loads |-> FALSE]
Truncated(width, height) == [Picture(width, height) EXCEPT !.loads = FALSE]

\* Payloads tried: undecodable, too small, too large, one of accepted size
\* (both limits at once), and one of accepted size whose pixel data is cut.
DecodeOutcomes ==
    { NotAnImage, Picture(1, 1),
      Picture(MIN_IMAGE_SIZE - 1, MIN_IMAGE_SIZE), Picture(MIN_IMAGE_SIZE, MIN_IMAGE_SIZE - 1),
      Picture(MIN_IMAGE_SIZE, MAX_IMAGE_SIZE),
      Picture(MAX_IMAGE_SIZE + 1, MIN_IMAGE_SIZE), Picture(MIN_IMAGE_SIZE, MAX_IMAGE_SIZE + 1),
      Truncated(MIN_IMAGE_SIZE, MAX_IMAGE_SIZE) }

GoodFeatures ==
    [raised |-> FALSE, shape |-> <<1, 38>>, dtype |-> "float32", nan |-> FALSE, inf |-> FALSE]

\* image_preprocessor.preprocess: it raises, or returns an array.
ExtractOutcomes ==
    { GoodFeatures,
      [GoodFeatures EXCEPT !.raised = TRUE],
      [GoodFeatures EXCEPT !.shape = <<1, 37>>],
      [GoodFeatures EXCEPT !.shape = <<38>>],
      [GoodFeatures EXCEPT !.dtype = "float64"],
      [GoodFeatures EXCEPT !.nan = TRUE],
      [GoodFeatures EXCEPT !.inf = TRUE] }

\* _check_model_readiness: the detail of the 503 it raises, or "ok".
\* A ModelService or PredictionService object is always truthy.
check_model_readiness ==
    IF model_service = <<>> THEN "Model service not initialized - server starting up"
    ELSE IF ~is_loaded(model_service[1]) THEN "Model not ready - please wait for model to load"
    ELSE IF prediction_service = <<>>
    THEN "Prediction service not initialized - server starting up"
    ELSE "ok"

\* Mutant: every array passes.
validate_features_accepting(f) == "ok"

\* _validate_features: the detail of the 500 it raises, or "ok".
validate_features(f) ==
    IF f.shape # EXPECTED_FEATURE_SHAPE THEN "Invalid feature shape"
    ELSE IF f.dtype # EXPECTED_DTYPE THEN "Invalid feature dtype"
    ELSE IF f.nan THEN "Features contain NaN values"
    ELSE IF f.inf THEN "Features contain Inf values"
    ELSE "ok"

\* Mutant: the detail interpolates nothing.
validate_features_names_silent(f) == <<>>

\* The values the detail of _validate_features interpolates: the actual and
\* the expected shape, or the actual and the expected dtype, or nothing.
validate_features_names(f) ==
    IF f.shape # EXPECTED_FEATURE_SHAPE THEN <<f.shape, EXPECTED_FEATURE_SHAPE>>
    ELSE IF f.dtype # EXPECTED_DTYPE THEN <<f.dtype, EXPECTED_DTYPE>>
    ELSE <<>>

\* round(confidence, 2) in hundredths of a percent, for a confidence given as
\* a numerator over ProbSteps (ties to even).
round2(confidence) ==
    LET n == confidence * 100
        q == n \div ProbSteps
        r == n % ProbSteps
    IN  IF 2 * r < ProbSteps THEN q
        ELSE IF 2 * r > ProbSteps THEN q + 1
        ELSE IF q % 2 = 0 THEN q ELSE q + 1

\* _format_lean_response
format_lean_response(prediction_result) ==
    [ wasteType  |-> prediction_result.waste_type,
      category   |-> <<"Sampah", Title(prediction_result.category)>>,
      confidence |-> round2(prediction_result.confidence),
      tips       |-> IF Upper(prediction_result.category) = "ORGANIK"
                     THEN "ORGANIK" ELSE "ANORGANIK",
      description |-> <<prediction_result.waste_type, "termasuk kategori Sampah",
                        Title(prediction_result.category)>> ]

\* PredictionService._format_probabilities: for each class of the label
\* encoder that has a column, its rounded percentage and the category the
\* waste map gives it (default ANORGANIK), keyed by the display name.
format_probabilities(ps, probabilities) ==
    LET cls  == classes_of(ps)
        wm   == waste_map_of(ps).map
        cols == {i \in DOMAIN cls : i <= Len(probabilities)}
        at(name) == CHOOSE i \in cols : Title(cls[i]) = name
    IN  [ name \in {Title(cls[i]) : i \in cols} |->
            [ probability |-> round2(probabilities[at(name)] * 100),
              category    |-> <<"Sampah",
                                Title(IF cls[at(name)] \in DOMAIN wm THEN wm[cls[at(name)]]
                                      ELSE "ANORGANIK")>> ] ]

\* Mutant: the debug block is always included.
format_response_always_debug(ps, prediction_result, include_debug_info) ==
    [ success |-> TRUE,
      data    |-> [ wasteType   |-> prediction_result.waste_type,
                    category    |-> <<"Sampah", Title(prediction_result.category)>>,
                    confidence  |-> round2(prediction_result.confidence),
                    tips        |-> "ANORGANIK",
                    description |-> <<>>,
                    modelInfo   |-> [probabilitiesPerClass |-> <<>>] ] ]

\* PredictionService.format_response: the lean data, with tips looked up in
\* WASTE_TIPS by the category as it is spelled (default ANORGANIK), and the
\* modelInfo block only when include_debug_info is set.
format_response(ps, prediction_result, include_debug_info) ==
    LET lean ==
            [ wasteType   |-> prediction_result.waste_type,
              category    |-> <<"Sampah", Title(prediction_result.category)>>,
              confidence  |-> round2(prediction_result.confidence),
              tips        |-> IF prediction_result.category \in {"ORGANIK", "ANORGANIK"}
                              THEN prediction_result.category ELSE "ANORGANIK",
              description |-> <<prediction_result.waste_type,
                                "termasuk dalam kategori Sampah",
                                Title(prediction_result.category)>> ]
        modelInfo ==
            [ confidenceSource      |-> "XGBoost.predict_proba()",
              pipeline              |-> {"step_1", "step_2", "step_3", "step_4", "step_5",
                                         "step_6", "step_7", "step_8"},
              modelComponents       |-> [n_classes |-> Len(classes_of(ps))],
              probabilitiesPerClass |->
                  format_probabilities(ps, prediction_result.probabilities) ]
    IN  [ success |-> TRUE,
          data    |-> IF include_debug_info THEN lean @@ [modelInfo |-> modelInfo]
                      ELSE lean ]

(***************************************************************************)
(* History record                                                          *)
(***************************************************************************)

NoResponse ==
    [wasteType |-> "", category |-> <<>>, confidence |-> -1, tips |-> "", description |-> <<>>]

\* What a predict request has consumed so far, each input <<>> until its
\* stage read it: the content type, the number of bytes read, the picture
\* Image.open found and the array preprocess returned.
NoRequest == [content_type |-> <<>>, len |-> <<>>, image |-> <<>>, features |-> <<>>]

Idle ==
    [ op |-> "none", raised |-> FALSE, status |-> 0, detail |-> "", names |-> <<>>,
      tried |-> <<>>, steps |-> <<>>, fallbacks |-> {}, result |-> NoResult,
      response |-> NoResponse, request |-> NoRequest, source_file |-> <<>> ]

(***************************************************************************)
(* Actions                                                                 *)
(***************************************************************************)

Init ==
    /\ model_service = <<>>
    /\ prediction_service = <<>>
    /\ image_preprocessor = FALSE
    /\ last = Idle
    /\ NoAccounts /\ NoRequestLog

\* init_model_service(model_path, model_url): a fresh ModelService replaces
\* the global one.
init_model_service ==
    \E path \in BOOLEAN, url \in BOOLEAN :
        /\ model_service' = <<NewModelService(path, url)>>
        /\ last' = [Idle EXCEPT !.op = "init_model_service"]
        /\ UNCHANGED <<prediction_service, image_preprocessor>>
        /\ UNCHANGED <<supabase, registering, RECENT_REQUESTS, RECENT_EVENTS>>

\* get_model_service().load_model()
LoadModel ==
    /\ model_service # <<>>
    /\ \E r \in IF model_service[1].model_url THEN RemoteOutcomes
                 ELSE {Raises("MODEL_URL not configured")} :
       \E l \in IF ~model_service[1].model_path THEN {Raises("no path")}
                 ELSE IF LoadAttempt(model_service[1], "supabase", r).ok
                 THEN {Raises("not read")} ELSE LocalOutcomes :
        LET res == load_model(model_service[1], r, l) IN
        /\ model_service' = <<res.ms>>
        /\ last' = [Idle EXCEPT !.op = "load_model", !.raised = res.raised,
                                 !.tried = res.tried]
    /\ UNCHANGED <<prediction_service, image_preprocessor>>
    /\ UNCHANGED <<supabase, registering, RECENT_REQUESTS, RECENT_EVENTS>>

\* get_model_service().validate_model()
ValidateModel ==
    /\ model_service # <<>>
    /\ LET res == validate_model(model_service[1]) IN
        /\ model_service' = <<res.ms>>
        /\ last' = [Idle EXCEPT !.op = "validate_model", !.raised = res.raised,
                                 !.detail = res.error]
    /\ UNCHANGED <<prediction_service, image_preprocessor>>
    /\ UNCHANGED <<supabase, registering, RECENT_REQUESTS, RECENT_EVENTS>>

\* init_prediction_service(model_service.get_model()): the global is
\* assigned only when the constructor returns.
init_prediction_service ==
    /\ model_service # <<>>
    /\ LET model == model_service[1].model IN
        /\ prediction_service' =
              IF CanConstruct(model) THEN <<NewPredictionService(model)>>
              ELSE prediction_service
        /\ last' = [Idle EXCEPT !.op = "init_prediction_service",
                                 !.raised = ~CanConstruct(model)]
    /\ UNCHANGED <<model_service, image_preprocessor>>
    /\ UNCHANGED <<supabase, registering, RECENT_REQUESTS, RECENT_EVENTS>>

\* How predict_waste ends: the answer, the stages run, the inputs consumed,
\* and the singleton.
Respond(status, detail, steps, fallbacks, result, response, ip, req) ==
    /\ last' = [Idle EXCEPT !.op = "predict_waste", !.raised = (status # 200),
                            !.status = status, !.detail = detail, !.steps = steps,
                            !.fallbacks = fallbacks, !.result = result,
                            !.response = response, !.request = req,
                            !.names = IF req.features # <<>> /\ ~req.features[1].raised
                                         /\ detail = validate_features(req.features[1])
                                      THEN validate_features_names(req.features[1])
                                      ELSE <<>>]
    /\ image_preprocessor' = ip
    /\ UNCHANGED <<model_service, prediction_service>>
    /\ UNCHANGED <<supabase, registering, RECENT_REQUESTS, RECENT_EVENTS>>

Fail(status, detail, steps, req) ==
    Respond(status, detail, steps, {}, NoResult, NoResponse, image_preprocessor, req)

\* Step 5 and 6 of predict_waste: prediction_service.predict, its except
\* clauses, and the lean response.
PredictAndFormat(steps, req) ==
    LET ps == prediction_service[1]
        n  == n_outputs(ps)
        Answer(sc, cp, pp) ==
            LET res == predict(ps, sc, cp, pp)
                ran == steps \o res.steps
            IN  IF res.raised = "ValueError"
                THEN Respond(500, "Model error", ran, {}, NoResult, NoResponse, TRUE, req)
                ELSE IF res.raised = "Exception"
                THEN Respond(500, "Error saat prediksi", ran, {}, NoResult, NoResponse,
                             TRUE, req)
                ELSE Respond(200, "", Append(ran, "format"), res.fallbacks, res.result,
                             format_lean_response(res.result), TRUE, req)
    IN  \E sc \in StageOutcomes :
            IF sc # "ok" THEN Answer(sc, NotCalled, NoProba)
            ELSE \E cp \in ClassifierOutcomes(n) :
                    IF cp.err # "ok" THEN Answer(sc, cp, NoProba)
                    ELSE \E pp \in ProbaOutcomes(n) : Answer(sc, cp, pp)

\* Step 4 of predict_waste: get_image_preprocessor creates the singleton on
\* first use, then preprocess and _validate_features.  preprocess raises
\* when the pixel data of the picture does not decode.
ExtractAndPredict(steps, req) ==
    \E f \in IF req.image[1].loads THEN ExtractOutcomes
              ELSE {[GoodFeatures EXCEPT !.raised = TRUE]} :
        LET s4 == Append(steps, "extract")
            s5 == Append(s4, "validate_features")
            r4 == [req EXCEPT !.features = <<f>>]
        IN  IF f.raised
            THEN Respond(500, "Error preprocessing image", s4, {}, NoResult, NoResponse,
                         TRUE, r4)
            ELSE IF validate_features(f) # "ok"
            THEN Respond(500, validate_features(f), s5, {}, NoResult, NoResponse, TRUE, r4)
            ELSE PredictAndFormat(s5, r4)

\* Step 3 of predict_waste: Image.open and the dimension checks.
DecodeAndPredict(steps, req) ==
    \E image \in DecodeOutcomes :
        LET s3 == Append(steps, "decode")
            r3 == [req EXCEPT !.image = <<image>>]
            width == image.size[1]
            height == image.size[2]
        IN  IF ~image.opens THEN Fail(400, "File bukan gambar yang valid", s3, r3)
            ELSE IF width < MIN_IMAGE_SIZE \/ height < MIN_IMAGE_SIZE
            THEN Fail(400, "Gambar terlalu kecil", s3, r3)
            ELSE IF width > MAX_IMAGE_SIZE \/ height > MAX_IMAGE_SIZE
            THEN Fail(400, "Gambar terlalu besar", s3, r3)
            ELSE ExtractAndPredict(s3, r3)

\* Step 2 of predict_waste: read the payload and check its size.
ReadAndPredict(steps, req) ==
    \E len \in ReadOutcomes :
        LET s2 == Append(steps, "read")
            r2 == [req EXCEPT !.len = <<len>>]
        IN  IF len < 0 THEN Fail(500, "Error membaca file", s2, r2)
            ELSE IF len = 0 THEN Fail(400, "File gambar kosong", s2, r2)
            ELSE IF len > MAX_FILE_SIZE THEN Fail(400, "File terlalu besar", s2, r2)
            ELSE DecodeAndPredict(s2, r2)

\* POST /api/predict
predict_waste ==
    IF check_model_readiness # "ok"
    THEN Fail(503, check_model_readiness, <<"readiness">>, NoRequest)
    ELSE \E content_type \in ContentTypes :
            LET s1 == <<"readiness", "content_type">>
                r1 == [NoRequest EXCEPT !.content_type = <<content_type>>]
            IN  IF content_type = "" THEN Fail(400, "File harus berupa gambar", s1, r1)
                ELSE IF content_type \notin allowed_types
                THEN Fail(400, "Format file tidak didukung", s1, r1)
                ELSE ReadAndPredict(s1, r1)

\* The keyword parameters init_model_service accepts, and the keywords
\* startup_event passes to it.
init_model_service_parameters == {"model_path", "model_url"}
startup_keywords == {"base_dir"}

\* What the local model file holds when the application starts: a valid
\* bundle, or nothing.
StartupFiles == {Loaded(GoodBundle), Raises("FileNotFoundError")}

\* startup_event (the application's startup hook), run while the local model
\* file holds `l`: init_model_service(base_dir=BASE_DIR), load_model,
\* init_prediction_service(model).  A keyword the callee does not accept is
\* a TypeError raised before the callee runs; no exception is caught.
\* MODEL_URL may or may not be set in the environment.
startup_event ==
    \E l \in StartupFiles :
        LET begun == [Idle EXCEPT !.op = "startup_event", !.source_file = <<l>>] IN
        IF ~(startup_keywords \subseteq init_model_service_parameters)
        THEN /\ last' = [begun EXCEPT !.raised = TRUE, !.detail = "TypeError"]
             /\ UNCHANGED <<model_service, prediction_service, image_preprocessor>>
             /\ UNCHANGED <<supabase, registering, RECENT_REQUESTS, RECENT_EVENTS>>
        ELSE \E url \in BOOLEAN :
             \E r \in IF url THEN RemoteOutcomes ELSE {Raises("MODEL_URL not configured")} :
                LET ms0   == NewModelService("model_path" \in startup_keywords, url)
                    res   == load_model(ms0, r, l)
                    model == res.ms.model
                    s1    == <<"init_model_service", "load_model">>
                IN  /\ model_service' = <<res.ms>>
                    /\ prediction_service' =
                          IF ~res.raised /\ CanConstruct(model)
                          THEN <<NewPredictionService(model)>> ELSE prediction_service
                    /\ last' = IF res.raised
                               THEN [begun EXCEPT !.raised = TRUE, !.detail = "ValueError",
                                                  !.steps = s1, !.tried = res.tried]
                               ELSE [begun EXCEPT !.raised = ~CanConstruct(model),
                                                  !.steps = Append(s1, "init_prediction_service"),
                                                  !.tried = res.tried]
                    /\ UNCHANGED image_preprocessor
                    /\ UNCHANGED <<supabase, registering, RECENT_REQUESTS, RECENT_EVENTS>>

Next ==
    \/ init_model_service
    \/ LoadModel
    \/ ValidateModel
    \/ init_prediction_service
    \/ predict_waste
    \/ startup_event

Spec == Init /\ [][Next]_vars

(***************************************************************************)
(* The feature extractors: ImagePreprocessor (services/image_service.py)   *)
(* and ImagePreprocessorV2 (services/v2/image_preprocessor.py).  A feature *)
(* vector is described by the name of the descriptor behind each entry.    *)
(***************************************************************************)

\* What extract_features may be given: a numpy array (2-D, or 3-D with 3 or
\* 4 channels), a PIL image, bytes, a path, or something else.  `readable`
\* says whether np.array / cv2.imdecode / cv2.imread yields pixels.
ImageInputs ==
    { [type |-> "ndarray", ndim |-> 2, channels |-> 1, readable |-> TRUE],
      [type |-> "ndarray", ndim |-> 3, channels |-> 3, readable |-> TRUE],
      [type |-> "ndarray", ndim |-> 3, channels |-> 4, readable |-> TRUE],
      [type |-> "PIL", ndim |-> 2, channels |-> 1, readable |-> TRUE],
      [type |-> "PIL", ndim |-> 3, channels |-> 3, readable |-> TRUE],
      [type |-> "PIL", ndim |-> 3, channels |-> 3, readable |-> FALSE],
      [type |-> "bytes", ndim |-> 3, channels |-> 3, readable |-> TRUE],
      [type |-> "bytes", ndim |-> 3, channels |-> 3, readable |-> FALSE],
      [type |-> "str", ndim |-> 3, channels |-> 3, readable |-> TRUE],
      [type |-> "str", ndim |-> 3, channels |-> 3, readable |-> FALSE],
      [type |-> "other", ndim |-> 0, channels |-> 0, readable |-> FALSE] }

\* The library call that fails during one extraction, if any.
Faults ==
    {"none", "cvtColor", "resize", "calcHist", "graycomatrix", "hog", "Canny",
     "Laplacian", "threshold"}

FaultsV2 == {"none", "cvtColor", "resize", "calcHist", "Canny"}

\* _load_image_as_array (the same code in both extractors): whether it
\* raises.  Arrays and PIL images are colour-converted, bytes and paths are
\* decoded and give ValueError when the decoder returns None.
load_image_raises(image, fault) ==
    IF image.type = "ndarray"
    THEN (image.ndim = 2 \/ image.channels = 3) /\ fault = "cvtColor"
    ELSE IF image.type = "PIL" THEN ~image.readable \/ fault = "cvtColor"
    ELSE IF image.type \in {"bytes", "str"} THEN ~image.readable
    ELSE TRUE

Rep(tag, n) == [i \in 1..n |-> tag]

n_features == 38
n_features_v2 == 32

\* ImagePreprocessor.__init__: target_size=(128, 128)
target_size == <<128, 128>>

\* Blocks of hog(gray, pixels_per_cell=(16, 16), cells_per_block=(2, 2)) on
\* an image of the given size; mean and std of no block are NaN.
hog_blocks(size) ==
    LET along(d) == IF d \div 16 < 2 THEN 0 ELSE d \div 16 - 1
    IN  along(size[1]) * along(size[2])

\* Mutant: the three histograms have 16 bins each.
hsv_histogram_16_bins == Rep("h_hist", 16) \o Rep("s_hist", 16) \o Rep("v_hist", 16)

\* Three 8-bin histograms, flattened.
hsv_histogram == Rep("h_hist", 8) \o Rep("s_hist", 8) \o Rep("v_hist", 8)

glcm_texture == <<"contrast", "dissimilarity", "homogeneity", "energy", "correlation">>
hog_statistics == <<"hog_mean", "hog_std">>
canny_edges == <<"edge_mean", "edge_std", "edge_ratio">>
laplacian_sharpness == <<"lap_var", "lap_mean_abs">>
reflection == <<"bright_ratio", "gray_std">>

\* The list `features` as extract_features has built it when it converts.
features_list ==
    hsv_histogram \o glcm_texture \o hog_statistics \o canny_edges
        \o laplacian_sharpness \o reflection

ExtractionRaised ==
    [raised |-> TRUE, shape |-> <<>>, dtype |-> "", nan |-> FALSE, zero_filled |-> FALSE,
     layout |-> <<>>]

\* ImagePreprocessor.extract_features: any failure is logged and re-raised;
\* the list becomes a float32 array of one row, whose length is checked.
extract_features(image, fault) ==
    IF load_image_raises(image, fault) \/ fault # "none" THEN ExtractionRaised
    ELSE IF Len(features_list) # n_features THEN ExtractionRaised
    ELSE [ raised      |-> FALSE,
           shape       |-> <<1, Len(features_list)>>,
           dtype       |-> "float32",
           nan         |-> hog_blocks(target_size) = 0,
           zero_filled |-> FALSE,
           layout      |-> features_list ]

\* ImagePreprocessorV2._extract_color_histogram_features on the resized
\* image: 24 histogram values, the channel means and variances, the edge
\* density and a constant; any exception is logged and answered with
\* np.zeros(32).
extract_color_histogram_features(fault) ==
    LET features == hsv_histogram \o
                    <<"b_mean", "g_mean", "r_mean", "b_var", "g_var", "r_var",
                      "edge_density", "zero">>
    IN  IF fault \in {"cvtColor", "calcHist", "Canny"}
        THEN [zero_filled |-> TRUE, layout |-> Rep("zero", 32)]
        ELSE IF Len(features) < 32
        THEN [zero_filled |-> FALSE, layout |-> features \o Rep("zero", 32 - Len(features))]
        ELSE [zero_filled |-> FALSE, layout |-> SubSeq(features, 1, 32)]

\* ImagePreprocessorV2.extract_features: load, resize to 128x128, the
\* histogram features, reshape to one row.
extract_features_v2(image, fault) ==
    LET hist == extract_color_histogram_features(fault) IN
    IF load_image_raises(image, fault) \/ fault = "resize" THEN ExtractionRaised
    ELSE IF Len(hist.layout) # n_features_v2 THEN ExtractionRaised
    ELSE [ raised      |-> FALSE,
           shape       |-> <<1, Len(hist.layout)>>,
           dtype       |-> "float32",
           nan         |-> FALSE,
           zero_filled |-> hist.zero_filled,
           layout      |-> hist.layout ]

\* The last extraction: the extractor, its input, the failing call if any,
\* and what extract_features returned or that it raised.
NoExtraction ==
    [ op |-> "none", image |-> <<>>, fault |-> "none", result |-> ExtractionRaised ]

ExtractInit ==
    /\ model_service = <<>>
    /\ prediction_service = <<>>
    /\ image_preprocessor = FALSE
    /\ last = NoExtraction
    /\ NoAccounts /\ NoRequestLog

\* get_image_preprocessor().preprocess(image)
Preprocess ==
    \E image \in ImageInputs, fault \in Faults :
        /\ last' = [ op |-> "ImagePreprocessor.extract_features", image |-> <<image>>,
                     fault |-> fault, result |-> extract_features(image, fault) ]
        /\ image_preprocessor' = TRUE
        /\ UNCHANGED <<model_service, prediction_service>>
        /\ UNCHANGED <<supabase, registering, RECENT_REQUESTS, RECENT_EVENTS>>

\* ImagePreprocessorV2().preprocess(image)
PreprocessV2 ==
    \E image \in ImageInputs, fault \in FaultsV2 :
        /\ last' = [ op |-> "ImagePreprocessorV2.extract_features", image |-> <<image>>,
                     fault |-> fault, result |-> extract_features_v2(image, fault) ]
        /\ UNCHANGED <<model_service, prediction_service, image_preprocessor>>
        /\ UNCHANGED <<supabase, registering, RECENT_REQUESTS, RECENT_EVENTS>>

ExtractNext == Preprocess \/ PreprocessV2

ExtractSpec == ExtractInit /\ [][ExtractNext]_vars

(***************************************************************************)
(* Response formatting: PredictionService.format_response, as the test     *)
(* scripts call it on a result of predict, and _format_lean_response, as   *)
(* predict_waste calls it.                                                 *)
(***************************************************************************)

\* The bundles a prediction service that answers is built on.
FormatBundles == {GoodBundle, GoodBundle3, GoodBundleResidu}

\* How format_response is called: with its default arguments (<<>>) or with
\* include_debug_info given.
FormatArguments == {<<>>, <<FALSE>>, <<TRUE>>}

\* def format_response(self, prediction_result, include_debug_info=False)
include_debug_info_of(args) == IF args = <<>> THEN FALSE ELSE args[1]

NoFormat ==
    [ op |-> "none", args |-> <<>>, result |-> NoResult, body |-> <<>> ]

FormatInit ==
    /\ model_service = <<>>
    /\ prediction_service \in {<<NewPredictionService(b)>> : b \in FormatBundles}
    /\ image_preprocessor = FALSE
    /\ last = NoFormat
    /\ NoAccounts /\ NoRequestLog

\* result = prediction_service.predict(features);
\* prediction_service.format_response(result, ...)
FormatResponse ==
    \E cp \in ClassifierOutcomes(n_outputs(prediction_service[1])),
       pp \in ProbaOutcomes(n_outputs(prediction_service[1])),
       args \in FormatArguments :
        LET res == predict(prediction_service[1], "ok", cp, pp) IN
        /\ cp.err = "ok"
        /\ pp.err = "ok"
        /\ res.raised = "none"
        /\ last' = [ op |-> "format_response", args |-> args, result |-> res.result,
                     body |-> <<format_response(prediction_service[1], res.result,
                                                include_debug_info_of(args))>> ]
        /\ UNCHANGED <<model_service, prediction_service, image_preprocessor>>
        /\ UNCHANGED <<supabase, registering, RECENT_REQUESTS, RECENT_EVENTS>>

\* result = prediction_service.predict(features); _format_lean_response(result)
FormatLeanResponse ==
    \E cp \in ClassifierOutcomes(n_outputs(prediction_service[1])),
       pp \in ProbaOutcomes(n_outputs(prediction_service[1])) :
        LET res == predict(prediction_service[1], "ok", cp, pp) IN
        /\ cp.err = "ok"
        /\ pp.err = "ok"
        /\ res.raised = "none"
        /\ last' = [ op |-> "format_lean_response", args |-> <<>>, result |-> res.result,
                     body |-> <<[success |-> TRUE, data |-> format_lean_response(res.result)]>> ]
        /\ UNCHANGED <<model_service, prediction_service, image_preprocessor>>
        /\ UNCHANGED <<supabase, registering, RECENT_REQUESTS, RECENT_EVENTS>>

FormatNext == FormatResponse \/ FormatLeanResponse

FormatSpec == FormatInit /\ [][FormatNext]_vars

(***************************************************************************)
(* Properties                                                              *)
(***************************************************************************)

MS == model_service[1]
PS == prediction_service[1]

Predicted == last.op = "predict_waste"

\* The model service is missing, holds no bundle or an unvalidated one, or
\* the prediction service is missing.
NotReady ==
    \/ model_service = <<>>
    \/ MS.model.kind = "none"
    \/ ~MS.is_validated
    \/ prediction_service = <<>>

\* C1: a predict request made while the model service is not initialised,
\* holds no validated bundle, or the prediction service is not initialised
\* is answered 503 after the readiness check alone: no later stage runs and
\* no result is produced.
C1_ReadinessGate ==
    (Predicted /\ NotReady) =>
        /\ last.status = 503
        /\ last.steps = <<"readiness">>
        /\ last.result = NoResult
        /\ last.response = NoResponse

\* A request was refused while a service held a bundle that failed validation.
C1_Witness ==
    /\ Predicted
    /\ model_service # <<>>
    /\ prediction_service # <<>>
    /\ MS.model.kind = "dict"
    /\ ~MS.is_validated
    /\ last.status = 503

\* Every check of validate_model, spelled out on the bundle.
PassesEveryCheck(m) ==
    /\ m.kind = "dict"
    /\ {"model", "scaler", "label_encoder", "waste_map"} \subseteq m.keys
    /\ m.has_predict
    /\ m.has_transform
    /\ m.has_classes
    /\ m.waste_map_is_dict

\* C2: whenever is_loaded() is true, the bundle held in self.model passes
\* every check of validate_model.
C2_ReadinessSignal ==
    (model_service # <<>> /\ MS.model.kind # "none" /\ MS.is_validated)
        => PassesEveryCheck(MS.model)

\* A load that fell back to the local file ended with is_loaded() true.
C2_Witness ==
    /\ model_service # <<>>
    /\ last.op = "load_model"
    /\ Len(last.tried) = 2
    /\ MS.is_validated
    /\ MS.model = GoodBundle3

\* C3 (as claimed): a bundle whose classifier has predict but no
\* predict_proba is never held as validated.
C3_NoProbaRejectedAtLoad ==
    (model_service # <<>> /\ MS.model.kind = "dict"
        /\ MS.model.has_predict /\ ~MS.model.has_predict_proba)
        => ~MS.is_validated

LacksScaler(m) == m.kind = "dict" /\ "scaler" \notin m.keys

\* Every source load_model tried yielded a bundle without the 'scaler' key.
AllSourcesLackScaler ==
    /\ last.op = "load_model"
    /\ Len(last.tried) > 0
    /\ \A i \in DOMAIN last.tried : LacksScaler(last.tried[i].obj)

\* C4: when every configured source yields a bundle without 'scaler',
\* load_model raises and leaves is_loaded() false; is_loaded() is false as
\* long as such a bundle is held, and every predict request is answered 503.
C4_MissingScaler ==
    /\ AllSourcesLackScaler =>
          (last.raised /\ LacksScaler(MS.model) /\ ~MS.is_validated)
    /\ (model_service # <<>> /\ LacksScaler(MS.model)) =>
          /\ ~MS.is_validated
          /\ Predicted => (last.status = 503 /\ last.steps = <<"readiness">>)

\* Both sources were tried and both yielded a bundle without 'scaler'.
C4_LoadWitness ==
    /\ AllSourcesLackScaler
    /\ Len(last.tried) = 2
    /\ last.raised

\* A predict request was refused while the scaler-less bundle was held.
C4_Witness ==
    /\ Predicted
    /\ model_service # <<>>
    /\ prediction_service # <<>>
    /\ LacksScaler(MS.model)
    /\ last.status = 503

\* C5: validate_model raises and clears is_validated exactly when the
\* object is empty, no dict, lacks a required key, or one of its parts lacks
\* its capability; otherwise it sets is_validated.
C5_ValidateModel ==
    (last.op = "validate_model") =>
        /\ last.raised <=> ~PassesEveryCheck(MS.model)
        /\ MS.is_validated <=> PassesEveryCheck(MS.model)

\* validate_model refused a bundle whose waste_map is no dict.
C5_Witness ==
    /\ last.op = "validate_model"
    /\ last.raised
    /\ MS.model = WasteMapList
    /\ ~MS.is_validated

\* C6 (as claimed): a bundle whose label encoder has an empty class list is
\* never held as validated.
C6_EmptyClassListRejected ==
    (model_service # <<>> /\ MS.model.kind = "dict" /\ MS.model.has_classes
        /\ Len(MS.model.classes) = 0)
        => ~MS.is_validated

\* C7: with a URL and a path configured, load_model tries the remote source
\* first and once, the local source once and only after the remote attempt
\* failed, raises only when the local attempt failed too, and on success
\* holds the bundle and the source name of the attempt that validated.
C7_LoadFallback ==
    (last.op = "load_model" /\ MS.model_url /\ MS.model_path) =>
        LET t == last.tried IN
        /\ Len(t) \in {1, 2}
        /\ t[1].source = "supabase"
        /\ Len(t) = 1 <=> t[1].outcome = "ok"
        /\ Len(t) = 2 => t[2].source = "local"
        /\ last.raised <=> (Len(t) = 2 /\ t[2].outcome # "ok")
        /\ ~last.raised =>
              /\ MS.model = t[Len(t)].obj
              /\ MS.model_source = t[Len(t)].source
              /\ MS.is_validated

\* The remote bundle failed validation and the local one was taken.
C7_Witness ==
    /\ last.op = "load_model"
    /\ ~last.raised
    /\ Len(last.tried) = 2
    /\ last.tried[1].outcome = "Model is missing required components"
    /\ MS.model_source = "local"
    /\ MS.model = last.tried[2].obj

InSeq(x, seq) == \E i \in DOMAIN seq : seq[i] = x

\* The request reached PredictionService.predict.
ReachedPredict == Predicted /\ InSeq("scale", last.steps)

\* The classifier of the prediction service has no predict_proba.
ClassifierLacksProba ==
    /\ prediction_service # <<>>
    /\ ~PS.model_dict.has_predict_proba

C9_OnlyCategoryDefault == Predicted => last.fallbacks \subseteq {"category"}

\* C10: a successful prediction whose class has no entry in the waste map
\* has the category ANORGANIK, in the result and in the response.
C10_InorganicDefault ==
    (Predicted /\ last.status = 200
        /\ last.result.waste_class \notin DOMAIN waste_map_of(PS).map) =>
        /\ last.result.category = "ANORGANIK"
        /\ last.response.category = <<"Sampah", "Anorganik">>
        /\ last.response.tips = "ANORGANIK"

\* botol_plastik, absent from the map of the three-class bundle, was predicted.
C10_Witness ==
    /\ Predicted
    /\ last.status = 200
    /\ PS.model_dict = GoodBundle3
    /\ last.result.waste_class = "botol_plastik"
    /\ last.result.category = "ANORGANIK"

\* C11 (as claimed): whatever the waste map holds, the category of a
\* successful prediction is ORGANIK or ANORGANIK, in the result and in the
\* response.
C11_TwoCoarseCategories ==
    (Predicted /\ last.status = 200) =>
        /\ last.result.category \in {"ORGANIK", "ANORGANIK"}
        /\ last.response.category \in {<<"Sampah", "Organik">>, <<"Sampah", "Anorganik">>}

\* C12: the confidence of a successful prediction lies in [0, 100], in the
\* result (a numerator over ProbSteps) and in the response (hundredths of a
\* percent after round(confidence, 2)).
C12_ConfidenceRange ==
    (Predicted /\ last.status = 200) =>
        /\ last.result.confidence \in 0..(100 * ProbSteps)
        /\ last.response.confidence \in 0..(100 * 100)

\* A prediction made with probability 1 for one class: confidence 100.
C12_Witness ==
    /\ Predicted
    /\ last.status = 200
    /\ SeqMax(last.result.probabilities) = ProbSteps
    /\ last.result.confidence = 100 * ProbSteps
    /\ last.response.confidence = 100 * 100

\* The request passed the readiness check.
PassedReadiness == Predicted /\ Len(last.steps) > 1

\* The request carried one of the inputs the endpoint is to refuse: no or a
\* refused content type, an empty or oversized payload, bytes that are no
\* image or whose pixel data does not decode, a width or height out of range.
InvalidInput ==
    LET req == last.request IN
    \/ req.content_type # <<>> /\ req.content_type[1] \notin allowed_types
    \/ req.len # <<>> /\ (req.len[1] = 0 \/ req.len[1] > MAX_FILE_SIZE)
    \/ req.image # <<>> /\
          LET image == req.image[1] IN
          \/ ~image.opens
          \/ ~image.loads
          \/ \E i \in 1..2 : image.size[i] < MIN_IMAGE_SIZE \/ image.size[i] > MAX_IMAGE_SIZE

\* C13 (as claimed): a request that passes the readiness check with an
\* invalid input is answered 400, and neither feature extraction nor the
\* prediction service runs.
C13_InvalidInputIs400 ==
    (PassedReadiness /\ InvalidInput) =>
        /\ last.status = 400
        /\ ~InSeq("extract", last.steps)
        /\ ~InSeq("scale", last.steps)

\* The stages of predict_waste, those of PredictionService.predict between
\* feature validation and response formatting.
FixedOrder ==
    << "readiness", "content_type", "read", "decode", "extract", "validate_features",
       "scale", "classify", "check_predict_proba", "predict_proba", "decode_label",
       "map_category", "format" >>

IsPrefix(s, t) == Len(s) <= Len(t) /\ \A i \in DOMAIN s : s[i] = t[i]

LastStep == last.steps[Len(last.steps)]

\* The array fails a check of _validate_features, spelled out on the array.
BadFeatures(f) ==
    \/ f.shape # <<1, 38>>
    \/ f.dtype # "float32"
    \/ f.nan
    \/ f.inf

\* C14: the stages of a request run in the fixed order readiness, content
\* type, payload size, decode and dimensions, feature extraction, feature
\* validation, prediction, formatting; the request ends at the first stage
\* whose check fails, with that stage's answer, and consumes no later input;
\* only a request that ran every stage is answered 200.
C14_FixedOrder ==
    Predicted =>
        LET req == last.request IN
        /\ IsPrefix(last.steps, FixedOrder)
        /\ last.status = 200 <=> last.steps = FixedOrder
        /\ last.status # 200 => (last.result = NoResult /\ last.response = NoResponse)
        /\ NotReady => (LastStep = "readiness" /\ last.status = 503 /\ req = NoRequest)
        /\ (req.content_type # <<>> /\ req.content_type[1] \notin allowed_types) =>
              (LastStep = "content_type" /\ last.status = 400 /\ req.len = <<>>)
        /\ (req.len # <<>> /\ req.len[1] < 0) =>
              (LastStep = "read" /\ last.status = 500 /\ req.image = <<>>)
        /\ (req.len # <<>> /\ (req.len[1] = 0 \/ req.len[1] > MAX_FILE_SIZE)) =>
              (LastStep = "read" /\ last.status = 400 /\ req.image = <<>>)
        /\ (req.image # <<>> /\
                (\/ ~req.image[1].opens
                 \/ \E i \in 1..2 : \/ req.image[1].size[i] < MIN_IMAGE_SIZE
                                     \/ req.image[1].size[i] > MAX_IMAGE_SIZE)) =>
              (LastStep = "decode" /\ last.status = 400 /\ req.features = <<>>)
        /\ (req.features # <<>> /\ req.features[1].raised) =>
              (LastStep = "extract" /\ last.status = 500
                  /\ last.detail = "Error preprocessing image")
        /\ (req.features # <<>> /\ ~req.features[1].raised /\ BadFeatures(req.features[1])) =>
              (LastStep = "validate_features" /\ last.status = 500)
        /\ (InSeq("scale", last.steps) /\ last.status # 200) =>
              (last.status = 500 /\ last.detail \in {"Model error", "Error saat prediksi"})

\* A request passed three checks and was refused by the fourth, the
\* dimension check, before any feature was extracted.
C14_Witness ==
    /\ Predicted
    /\ last.steps = <<"readiness", "content_type", "read", "decode">>
    /\ last.request.image = <<Picture(MIN_IMAGE_SIZE, MAX_IMAGE_SIZE + 1)>>
    /\ last.request.features = <<>>
    /\ last.status = 400
    /\ last.detail = "Gambar terlalu besar"

\* preprocess returned an array that fails a check of _validate_features.
FeaturesRejected ==
    /\ Predicted
    /\ last.request.features # <<>>
    /\ ~last.request.features[1].raised
    /\ BadFeatures(last.request.features[1])

\* C15 (as claimed): an array of the wrong shape or dtype, or holding NaN or
\* Inf, is answered 500 with a detail that names the expected and the actual
\* shape or dtype, and the prediction service is not called.
C15_NamesShapeOrDtype ==
    FeaturesRejected =>
        /\ last.status = 500
        /\ last.names # <<>>
        /\ ~InSeq("scale", last.steps)

\* C15 (amended): such an array is answered 500 by _validate_features, the
\* prediction service is not called and no result is produced; the detail
\* names the actual and the expected shape when the shape is wrong, the
\* actual and the expected dtype when only the dtype is wrong, and otherwise
\* only says that the array holds NaN, or Inf, values.
C15_FeatureValidation ==
    FeaturesRejected =>
        LET f == last.request.features[1] IN
        /\ last.status = 500
        /\ LastStep = "validate_features"
        /\ ~InSeq("scale", last.steps)
        /\ last.result = NoResult
        /\ f.shape # <<1, 38>> =>
              /\ last.detail = "Invalid feature shape"
              /\ last.names = <<f.shape, <<1, 38>> >>
        /\ (f.shape = <<1, 38>> /\ f.dtype # "float32") =>
              /\ last.detail = "Invalid feature dtype"
              /\ last.names = <<f.dtype, "float32">>
        /\ (f.shape = <<1, 38>> /\ f.dtype = "float32" /\ f.nan) =>
              /\ last.detail = "Features contain NaN values"
              /\ last.names = <<>>
        /\ (f.shape = <<1, 38>> /\ f.dtype = "float32" /\ ~f.nan) =>
              /\ last.detail = "Features contain Inf values"
              /\ last.names = <<>>

\* An array of 37 columns was refused, the detail naming both shapes.
C15_Witness ==
    /\ FeaturesRejected
    /\ last.request.features[1].shape = <<1, 37>>
    /\ last.status = 500
    /\ last.names = << <<1, 37>>, <<1, 38>> >>

Extracted == last.op \in {"ImagePreprocessor.extract_features",
                          "ImagePreprocessorV2.extract_features"}

\* Decoding, resizing, colour conversion or a descriptor failed.
InternalFailure ==
    /\ Extracted
    /\ \/ last.fault # "none"
       \/ last.image[1].type \in {"PIL", "bytes", "str"} /\ ~last.image[1].readable

\* C16 (as claimed): in both extractors an internal failure makes
\* extract_features raise; no vector, zero-filled or other, is returned.
C16_FailuresPropagate ==
    InternalFailure => (last.result.raised /\ ~last.result.zero_filled)

\* The picture can be loaded and no library call fails.
ValidImage ==
    /\ last.op = "ImagePreprocessor.extract_features"
    /\ last.fault = "none"
    /\ ~load_image_raises(last.image[1], "none")

C18_RequestWritesNothing ==
    [][last'.op = "predict_waste" =>
          UNCHANGED <<model_service, prediction_service, image_preprocessor>>]_vars

\* C19 (as claimed): once is_loaded() is true, no later call replaces the
\* bundle held by the model service or makes is_loaded() false.
C19_LoadedForGood ==
    [][(model_service # <<>> /\ is_loaded(model_service[1])) =>
          /\ model_service' # <<>>
          /\ model_service'[1].model = model_service[1].model
          /\ is_loaded(model_service'[1])]_vars

\* C20 (as claimed): startup_event, run while the model file holds a bundle
\* that passes validation, runs init_model_service, load_model and
\* init_prediction_service in that order and ends with the gate open.
C20_StartupOpensGate ==
    (last.op = "startup_event" /\ last.source_file # <<>>
        /\ last.source_file[1].err = "none"
        /\ PassesEveryCheck(last.source_file[1].obj)) =>
        /\ ~last.raised
        /\ last.steps = <<"init_model_service", "load_model", "init_prediction_service">>
        /\ check_model_readiness = "ok"

LeanFields == {"wasteType", "category", "confidence", "tips", "description"}

C22_DefaultHasModelInfo ==
    (last.op = "format_response" /\ last.args = <<>>) =>
        LET body == last.body[1] IN
        /\ body.success
        /\ LeanFields \cup {"modelInfo"} \subseteq DOMAIN body.data
        /\ "probabilitiesPerClass" \in DOMAIN body.data.modelInfo

\* C25 (as claimed): whenever the readiness check of predict_waste passes,
\* the bundle the prediction service predicts with is the bundle the model
\* service holds as validated.
C25_GateChecksTheBundleInUse ==
    PassedReadiness => PS.model_dict = MS.model

\* ModelService.get_model_info, the entries the health endpoint and the
\* model status read.
get_model_info(ms) ==
    IF ~is_loaded(ms)
    THEN [loaded |-> FALSE, validated |-> FALSE, source |-> "None"]
    ELSE [loaded |-> TRUE, validated |-> ms.is_validated, source |-> ms.model_source]

\* GET /health: the body health_check returns in the current state.
health_check ==
    LET model_loaded == IF model_service # <<>> THEN is_loaded(MS) ELSE FALSE
        model_validated ==
            IF model_service # <<>> THEN get_model_info(MS).validated ELSE FALSE
    IN  [ status |-> IF model_loaded /\ model_validated THEN "healthy" ELSE "degraded",
          model_loaded |-> model_loaded,
          model_validated |-> model_validated,
          ready_for_predictions |-> model_loaded /\ model_validated ]

\* C26 (as claimed): in every state the health endpoint reports
\* ready_for_predictions (status healthy) exactly when the readiness gate
\* of predict_waste lets a request through instead of answering 503.
C26_HealthAgreesWithGate ==
    /\ health_check.ready_for_predictions <=> health_check.status = "healthy"
    /\ health_check.ready_for_predictions <=> check_model_readiness = "ok"

\* C27: whatever the classifier returned as raw prediction, a predict that
\* does not raise returns a waste_class that is one of
\* label_encoder.classes_, and a predict that stops at the label decoding
\* raises.
C27_DecodedLabelIsAClass ==
    Predicted =>
        /\ last.result # NoResult =>
              \E i \in DOMAIN classes_of(PS) : classes_of(PS)[i] = last.result.waste_class
        /\ (Len(last.steps) > 0 /\ LastStep = "decode_label") =>
              /\ last.raised
              /\ last.result = NoResult

\* A raw prediction that is no label of the encoder was decoded through the
\* most probable index.
C27_Witness ==
    /\ Predicted
    /\ "argmax_index" \in last.fallbacks
    /\ last.result.waste_class \in {"daun", "botol_plastik", "baterai"}

\* PredictionData: the fields without a default.
PredictionData_required ==
    {"wasteType", "category", "confidence", "tips", "description", "modelInfo"}

\* C28 (as claimed): the body predict_waste returns with status 200 has
\* every field the response model PredictionData requires.
C28_BodySatisfiesResponseModel ==
    (Predicted /\ last.status = 200) =>
        PredictionData_required \subseteq DOMAIN last.response

(***************************************************************************)
(* Accounts: app/auth.py (login, register, /me) and app/api/users.py, over *)
(* the users table of the database.  A register request is two database    *)
(* round trips, and requests of other clients run between them.            *)
(***************************************************************************)

Emails == {"a@mail.id", "b@mail.id"}
Passwords == {"rahasia1", "rahasia2"}

\* Rows the users table may grow to.
MaxUsers == 3

\* The clients whose register requests may be in flight together.
Clients == {1, 2}

\* hash_password: a salted bcrypt hash, described by the password it verifies.
hash_password(password) == [scheme |-> "bcrypt", of |-> password]

\* verify_password: bcrypt.checkpw, False when it raises on a malformed hash.
verify_password(plain_password, hashed_password) ==
    hashed_password.scheme = "bcrypt" /\ hashed_password.of = plain_password

\* A row of the users table.
UserRow(id, email, password, is_active) ==
    [ id |-> id, email |-> email, password_hash |-> hash_password(password),
      full_name |-> "Pengguna", phone |-> <<>>, avatar_url |-> <<>>,
      is_active |-> is_active, is_verified |-> FALSE,
      created_at |-> "created", last_login |-> <<>> ]

\* The users table when the server starts: empty, or holding one account,
\* active or deactivated.
InitialUsers ==
    { <<>>,
      <<UserRow(1, "a@mail.id", "rahasia1", TRUE)>>,
      <<UserRow(1, "a@mail.id", "rahasia1", FALSE)>> }

\* supabase.table('users').select(...).eq('email', email).execute().data
select_by_email(users, email) == SelectSeq(users, LAMBDA row : row.email = email)

\* supabase.table('users').select('*').eq('id', id).execute().data
select_by_id(users, id) == SelectSeq(users, LAMBDA row : row.id = id)

\* The user_data dict that login, register and /me build from a row.
user_data(user) ==
    [ id |-> user.id, email |-> user.email, full_name |-> user.full_name,
      phone |-> user.phone, avatar_url |-> user.avatar_url,
      is_verified |-> user.is_verified, created_at |-> user.created_at ]

\* create_access_token: the claims the token carries.
create_access_token(user) == [user_id |-> user.id, email |-> user.email]

NoCredentials == [email |-> "", password |-> ""]

\* No request answered yet.  `request` is the LoginRequest or RegisterRequest,
\* `known` the rows that held the request's email when it arrived, `data`
\* the user objects of the body, `written` the ids of the rows the request
\* updated or inserted.
NoAnswer ==
    [ op |-> "none", status |-> 0, detail |-> "", request |-> NoCredentials,
      known |-> <<>>, token |-> <<>>, data |-> <<>>, written |-> {} ]

Answer(op, status, detail) ==
    [NoAnswer EXCEPT !.op = op, !.status = status, !.detail = detail]

AuthInit ==
    /\ model_service = <<>>
    /\ prediction_service = <<>>
    /\ image_preprocessor = FALSE
    /\ last = NoAnswer
    /\ supabase \in {[users |-> u, unique_email |-> c] : u \in InitialUsers, c \in BOOLEAN}
    /\ registering = [c \in Clients |-> <<>>]
    /\ NoRequestLog

AuthFrame ==
    UNCHANGED <<model_service, prediction_service, image_preprocessor,
                RECENT_REQUESTS, RECENT_EVENTS>>

\* login: what it answers for `request` over the table `users`.
login_answer(users, request) ==
    LET rows == select_by_email(users, request.email)
        asked == [Answer("login", 401, "Email atau password salah")
                     EXCEPT !.request = request, !.known = rows]
    IN  IF rows = <<>> THEN asked
        ELSE IF ~rows[1].is_active
        THEN [asked EXCEPT !.status = 403, !.detail = "Akun Anda tidak aktif"]
        ELSE IF ~verify_password(request.password, rows[1].password_hash) THEN asked
        ELSE [asked EXCEPT !.status = 200, !.detail = "Login berhasil",
                           !.token = <<create_access_token(rows[1])>>,
                           !.data = <<user_data(rows[1])>>,
                           !.written = {rows[1].id}]

\* POST /api/auth/login: a successful login stamps last_login on the rows
\* with the user's id.
login ==
    \E email \in Emails, password \in Passwords :
        LET answer == login_answer(supabase.users, [email |-> email, password |-> password])
        IN  /\ last' = answer
            /\ supabase' =
                  [supabase EXCEPT !.users =
                      [i \in DOMAIN @ |->
                          IF @[i].id \in answer.written
                          THEN [@[i] EXCEPT !.last_login = <<"utcnow">>]
                          ELSE @[i]]]
            /\ UNCHANGED registering
            /\ AuthFrame

\* POST /api/auth/register up to the answer of its SELECT: 400 when the
\* email has a row, otherwise the request goes on to hash and insert.
register_select(c) ==
    /\ registering[c] = <<>>
    /\ Len(supabase.users) + Cardinality({d \in Clients : registering[d] # <<>>}) < MaxUsers
    /\ \E email \in Emails, password \in Passwords :
          LET request == [email |-> email, password |-> password]
              existing_user == select_by_email(supabase.users, email)
          IN  IF existing_user # <<>>
              THEN /\ last' = [Answer("register", 400, "Email sudah terdaftar")
                                  EXCEPT !.request = request, !.known = existing_user]
                   /\ UNCHANGED registering
              ELSE /\ registering' = [registering EXCEPT ![c] = <<request>>]
                   /\ last' = [Answer("register_select", 0, "") EXCEPT !.request = request]
    /\ UNCHANGED supabase
    /\ AuthFrame

\* The rest of register: the INSERT and the answer.  A unique index on
\* email, where the table has one, makes the insert of a second row for the
\* email raise, which the handler turns into a 500.
register_insert(c) ==
    /\ registering[c] # <<>>
    /\ LET request == registering[c][1]
           users == supabase.users
           rows == select_by_email(users, request.email)
           user == UserRow(Len(users) + 1, request.email, request.password, TRUE)
       IN  IF supabase.unique_email /\ rows # <<>>
           THEN /\ last' = [Answer("register", 500, "Terjadi kesalahan pada server")
                               EXCEPT !.request = request]
                /\ UNCHANGED supabase
           ELSE /\ supabase' = [supabase EXCEPT !.users = Append(users, user)]
                /\ last' = [Answer("register", 200, "Registrasi berhasil")
                               EXCEPT !.request = request,
                                      !.token = <<create_access_token(user)>>,
                                      !.data = <<user_data(user)>>,
                                      !.written = {user.id}]
    /\ registering' = [registering EXCEPT ![c] = <<>>]
    /\ AuthFrame

\* GET /api/auth/me for the user id of a valid token.
get_current_user_data ==
    \E user_id \in 1..MaxUsers :
        LET rows == select_by_id(supabase.users, user_id)
        IN  /\ last' = IF rows = <<>>
                       THEN Answer("me", 404, "User tidak ditemukan")
                       ELSE [Answer("me", 200, "") EXCEPT !.data = <<user_data(rows[1])>>]
            /\ UNCHANGED <<supabase, registering>>
            /\ AuthFrame

\* GET /api/users; get_supabase() returns None in demo mode.
list_users ==
    \E client \in BOOLEAN :
        /\ last' = IF ~client
                   THEN Answer("list_users", 500, "Database connection not available")
                   ELSE [Answer("list_users", 200, "") EXCEPT !.data = supabase.users]
        /\ UNCHANGED <<supabase, registering>>
        /\ AuthFrame

\* GET /api/users/{user_id}
get_user ==
    \E client \in BOOLEAN, user_id \in 1..MaxUsers :
        LET rows == select_by_id(supabase.users, user_id)
        IN  /\ last' = IF ~client
                       THEN Answer("get_user", 500, "Database connection not available")
                       ELSE IF rows = <<>>
                       THEN Answer("get_user", 404, "User not found")
                       ELSE [Answer("get_user", 200, "") EXCEPT !.data = <<rows[1]>>]
            /\ UNCHANGED <<supabase, registering>>
            /\ AuthFrame

AuthNext ==
    \/ login
    \/ \E c \in Clients : register_select(c)
    \/ \E c \in Clients : register_insert(c)
    \/ get_current_user_data
    \/ list_users
    \/ get_user

AuthSpec == AuthInit /\ [][AuthNext]_vars

\* C23 (as claimed): a login whose password does not match the hash stored
\* for a registered email is answered with 401, the same answer as for an
\* email that is not registered, issues no token and updates no row.
C23_WrongPasswordIs401 ==
    (/\ last.op = "login"
     /\ last.known # <<>>
     /\ ~verify_password(last.request.password, last.known[1].password_hash)) =>
        /\ last.status = 401
        /\ last.detail = login_answer(<<>>, last.request).detail
        /\ last.token = <<>>
        /\ last.written = {}

\* C24 (as claimed): a register request for an email that has a row is
\* answered with 400 and inserts nothing, and whatever the interleaving of
\* register requests the users table holds at most one row per email.
C24_OneRowPerEmail ==
    /\ (last.op = "register" /\ last.known # <<>>) =>
          (last.status # 200 /\ last.written = {})
    /\ \A i, j \in DOMAIN supabase.users :
          supabase.users[i].email = supabase.users[j].email => i = j

\* C29 (as claimed): no user object of any answer of login, register,
\* /api/auth/me, GET /api/users and GET /api/users/{user_id} has a
\* password_hash field.
C29_NoPasswordHashInResponses ==
    \A i \in DOMAIN last.data : "password_hash" \notin DOMAIN last.data[i]

(***************************************************************************)
(* The request log of app/main.py: the log_requests middleware and the two *)
(* deques it feeds.                                                        *)
(***************************************************************************)

\* Capacity of RECENT_REQUESTS and of RECENT_EVENTS: deque(maxlen=200) in
\* the code, scaled down so that both deques fill and overflow within the
\* explored states.
maxlen == 3

\* deque.appendleft on a deque with maxlen: the new entry becomes the head
\* and, when the deque was full, the entry at the tail is discarded.
appendleft(deque, entry) ==
    LET grown == <<entry>> \o deque
    IN  IF Len(grown) > maxlen THEN SubSeq(grown, 1, maxlen) ELSE grown

\* append_event: the event log after recording (level, message, meta).
append_event(events, level, message, meta) ==
    appendleft(events, [level |-> level, message |-> message, meta |-> meta])

\* record_request_log: both deques after storing `entry`.
record_request_log(requests, events, entry) ==
    [ requests |-> appendleft(requests, entry),
      events   |-> IF entry.status >= 400
                   THEN append_event(events, "ERROR", "Request returned error status",
                                     [path |-> entry.path, status |-> entry.status])
                   ELSE events ]

Paths == {"/health", "/api/predict"}

\* What `await call_next(request)` ends in: a response with a status code
\* (an HTTPException raised by a handler arrives as its response), or an
\* exception that no handler turned into a response.
Returns(status_code) == [raised |-> FALSE, status_code |-> status_code]
Unhandled == [raised |-> TRUE, status_code |-> 0]
HandlerOutcomes == {Returns(200), Returns(399), Returns(400), Unhandled}

NoLogged == [op |-> "none", path |-> "", raised |-> FALSE, status |-> 0]

LogInit ==
    /\ model_service = <<>>
    /\ prediction_service = <<>>
    /\ image_preprocessor = FALSE
    /\ last = NoLogged
    /\ NoAccounts
    /\ RECENT_REQUESTS = <<>>
    /\ RECENT_EVENTS = <<>>

\* The log_requests middleware around one request: the except clause
\* records the unhandled exception, the finally clause always stores the
\* entry.
log_requests ==
    \E path \in Paths, outcome \in HandlerOutcomes :
        LET status_code == IF outcome.raised THEN 500 ELSE outcome.status_code
            events == IF outcome.raised
                      THEN append_event(RECENT_EVENTS, "ERROR",
                                        "Unhandled exception during request",
                                        [path |-> path, error |-> "str(exc)"])
                      ELSE RECENT_EVENTS
            logged == record_request_log(RECENT_REQUESTS, events,
                                         [method |-> "GET", path |-> path,
                                          status |-> status_code])
        IN  /\ RECENT_REQUESTS' = logged.requests
            /\ RECENT_EVENTS' = logged.events
            /\ last' = [op |-> "log_requests", path |-> path,
                        raised |-> outcome.raised, status |-> status_code]
            /\ UNCHANGED <<model_service, prediction_service, image_preprocessor,
                           supabase, registering>>

LogNext == log_requests

LogSpec == LogInit /\ [][LogNext]_vars

\* The first n entries of a deque, or all of it when it is shorter.
Newest(deque, n) == SubSeq(deque, 1, IF Len(deque) < n THEN Len(deque) ELSE n)

\* C30 (as claimed): every request the middleware handles, whether the
\* handler returns or raises, puts exactly one entry at the head of
\* RECENT_REQUESTS with the final status code (500 when the handler
\* raised), puts exactly one ERROR event at the head of RECENT_EVENTS when
\* that status is 400 or above and none otherwise, and neither deque grows
\* beyond its capacity, the oldest entries being dropped first.
C30_RequestLog ==
    [][ /\ last'.raised => last'.status = 500
        /\ Head(RECENT_REQUESTS').status = last'.status
        /\ Head(RECENT_REQUESTS').path = last'.path
        /\ Tail(RECENT_REQUESTS') = Newest(RECENT_REQUESTS, maxlen - 1)
        /\ IF last'.status >= 400
           THEN /\ Head(RECENT_EVENTS').level = "ERROR"
                /\ Tail(RECENT_EVENTS') = Newest(RECENT_EVENTS, maxlen - 1)
           ELSE RECENT_EVENTS' = RECENT_EVENTS
        /\ Len(RECENT_REQUESTS') <= maxlen
        /\ Len(RECENT_EVENTS') <= maxlen ]_vars

====
